---- MODULE Spec2Model ----
(***************************************************************************)
(* RedBeat: a celery beat scheduler that keeps its schedule in redis.      *)
(*                                                                         *)
(* The model follows redbeat/schedulers.py.  Time is counted in units of   *)
(* 1/TicksPerSecond second.  A datetime is an integer number of units, a   *)
(* timedelta likewise; a redis score (to_timestamp) is a whole number of   *)
(* seconds.  The redis store is one record: the 'definition' and 'meta'    *)
(* fields of every entry hash, the REDBEAT_SCHEDULE_KEY sorted set and the *)
(* REDBEAT_LOCK_KEY string with its time to live.                          *)
(*                                                                         *)
(* Behaviour inherited from celery.beat (Scheduler.tick, maybe_due,        *)
(* apply_async, ScheduleEntry.__init__, schedule.is_due,                   *)
(* schedule.remaining_estimate) and from redis-py (Lock.acquire,           *)
(* Lock.release, pexpire) is written where the method of schedulers.py     *)
(* that calls it is modelled.                                              *)
(***************************************************************************)
EXTENDS Integers, Sequences, FiniteSets, TLC

\* ------------------------------------------------------------- bounds
\* CELERYBEAT_MAX_LOOP_INTERVAL (scheduler.max_interval), in seconds.
MaxInterval == 1
\* The wall clock of the tick specification runs from ClockStart to
\* ClockStart + Horizon.
Horizon == 3
\* total_run_count values an entry is constructed with lie in 0..MaxRuns.
MaxRuns == 1
\* Startups of beat processes in the startup specification
MaxStartups == 2

\* ---------------------------------------------------- program constants
\* to_timestamp drops the sub-second part of a datetime: units per second.
TicksPerSecond == 2
\* REDBEAT_LOCK_TIMEOUT = CELERYBEAT_MAX_LOOP_INTERVAL * 5
LockTimeoutFactor == 5
\* is_due of a disabled entry: "5 second delay for re-enable"
DisabledDelaySeconds == 5
\* datetime.datetime.min, far below every clock value of the model
DatetimeMin == -1000

None == "none"
Procs == {"p1", "p2", "p3"}
Names == {"a", "b"}
Tasks == {"t"}
RunEvery == {3}

Min(a, b) == IF a <= b THEN a ELSE b

\* self.max_interval as a timedelta
max_interval == MaxInterval * TicksPerSecond
\* self.lock_timeout as a timedelta; int(self.lock_timeout * 1000) ms
lock_timeout == LockTimeoutFactor * MaxInterval * TicksPerSecond
\* The clock starts late enough for every score of the model to be positive
ClockStart == 2 * Horizon + 4

VARIABLES
    now,        \* wall clock (app.now(), _default_now())
    store,      \* redis: definition, meta, schedule (sorted set), lock
    lock_key,   \* scheduler.lock_key is configured
    pc,         \* position of each beat process
    lock,       \* scheduler.lock of each process (TRUE: a Lock object)
    timer,      \* time left of the sleep a process is in
    since,      \* time since the process last set the expiry of its own token
    slow,       \* a tick of the process has run for lock_timeout or longer
    due_tasks,  \* schedule: keys still to load, per process
    d,          \* schedule: entries loaded in this tick, per process
    pending,    \* tick: names of d not visited yet, per process
    remaining,  \* tick: min(remaining_times + [max_interval]) so far
    sent,       \* messages handed to the executor
    obj,        \* the entry object of the API client
    loaded,     \* what the client's last from_key returned
    called,     \* the client's last call: [op, raised, prev]; prev tells
                \* whether the call before it was a save() that returned
    boot        \* the last startup (RedBeatScheduler.__init__): its
                \* CELERYBEAT_SCHEDULE, what setup_schedule raised, whether
                \* the store is still as it left it, and whether it repeated
                \* the startup before it on the store that one left

vars == <<now, store, lock_key, pc, lock, timer, since, slow,
          due_tasks, d, pending, remaining, sent, obj, loaded, called, boot>>

procVars == <<pc, lock, timer, since, slow, due_tasks, d, pending, remaining>>
clientVars == <<obj, loaded, called, boot>>

\* ------------------------------------------------------------ the store
KeyPrefix == "redbeat:"
\* RedBeatSchedulerEntry.key
key(name) == <<KeyPrefix, name>>
Keys == {key(n) : n \in Names}

\* An optional value: Nil (Python's None, an absent argument) or <<value>>.
Nil == <<>>
\* Python's "value or default"
Or(opt, default) == IF opt = Nil THEN default ELSE opt[1]

\* A hash field, a sorted-set member or a dict item that is absent is not in
\* the domain of its function.
Put(f, k, v) == [x \in DOMAIN f \cup {k} |-> IF x = k THEN v ELSE f[x]]
Drop(f, k) == [x \in DOMAIN f \ {k} |-> f[x]]
Empty == [x \in {} |-> 0]

NoLock == [token |-> None, ttl |-> 0]
EmptyStore ==
    [definition |-> Empty, meta |-> Empty, schedule |-> Empty, lock |-> NoLock,
     statics |-> {}]

\* json.dumps(value, cls=RedBeatJSONEncoder) / json.loads(text, cls=RedBeatJSONDecoder)
dumps(value) == <<"json", value>>
loads(text) == text[2]
\* A stored text that is no JSON: json.loads raises ValueError
Malformed == <<"not json">>
decodable(text) == text # Malformed

\* time.mktime(dt.timetuple()): whole seconds
to_timestamp(dt) == dt \div TicksPerSecond

\* ------------------------------------------------------------ the entry
\* ScheduleEntry.__init__ as called by RedBeatSchedulerEntry.__init__:
\* last_run_at or self._default_now(), total_run_count or 0.  app tells
\* whether the app keyword was given: self.app is the app, or None.
Entry(name, task, run_every, enabled, last_run_at, total_run_count, app, t) ==
    [name |-> name, task |-> task, schedule |-> run_every, enabled |-> enabled,
     last_run_at |-> Or(last_run_at, t),
     total_run_count |-> Or(total_run_count, 0),
     app |-> app]

\* schedule.remaining_estimate(last_run_at): (last_run_at + run_every) - now
remaining_estimate(run_every, last_run_at, t) == (last_run_at + run_every) - t

\* RedBeatSchedulerEntry.due_at
due_at(self, t) ==
    self.last_run_at + remaining_estimate(self.schedule, self.last_run_at, t)

\* datetime + timedelta below datetime.min raises OverflowError
overflows(self, t) == due_at(self, t) < DatetimeMin

\* RedBeatSchedulerEntry.score
score(self, t) == to_timestamp(due_at(self, t))

\* RedBeatSchedulerEntry.load_definition: Nil stands for KeyError(key)
load_definition(st, k) ==
    IF k \notin DOMAIN st.definition THEN Nil ELSE <<loads(st.definition[k])>>

\* RedBeatSchedulerEntry.load_meta: a dict of last_run_at and, when the
\* stored meta has it, total_run_count
load_meta(st, k) ==
    IF k \notin DOMAIN st.meta THEN [last_run_at |-> DatetimeMin]
    ELSE loads(st.meta[k])

\* RedBeatSchedulerEntry.from_key: Nil stands for KeyError(key) and
\* ValueError for the error of json.loads in load_definition or, after it,
\* in load_meta.  The entry is built from the definition and the meta
\* alone: its app is None.
ValueError == <<"raised", "ValueError">>
from_key(st, k, t) ==
    LET definition == load_definition(st, k)
        meta == load_meta(st, k)
    IN  IF k \notin DOMAIN st.definition THEN Nil
        ELSE IF ~decodable(st.definition[k]) THEN ValueError
        ELSE IF k \in DOMAIN st.meta /\ ~decodable(st.meta[k]) THEN ValueError
        ELSE <<Entry(definition[1].name, definition[1].task, definition[1].schedule,
                     definition[1].enabled, <<meta.last_run_at>>,
                     IF "total_run_count" \in DOMAIN meta
                     THEN <<meta.total_run_count>> ELSE Nil, FALSE, t)>>

\* The result of a method that writes the store: the object afterwards, the
\* store afterwards and the exception raised (None when it returns).
Outcome(self, st, raised) == [self |-> self, store |-> st, raised |-> raised]

\* save with last_run_at written into the definition
save_with_run_state(self, st, t) ==
    LET definition == [name |-> self.name, task |-> self.task,
                       schedule |-> self.schedule, enabled |-> self.enabled,
                       last_run_at |-> self.last_run_at]
        st1 == [st EXCEPT !.definition = Put(@, key(self.name), dumps(definition))]
    IN  IF ~self.app THEN Outcome(self, st1, "AttributeError")
        ELSE IF overflows(self, t) THEN Outcome(self, st1, "OverflowError")
        ELSE Outcome(self,
                     [st1 EXCEPT !.schedule = Put(@, key(self.name), score(self, t))],
                     None)

\* RedBeatSchedulerEntry.save: hset definition, then zadd with self.score.
\* self.app.conf, the first argument of the zadd, raises AttributeError when
\* self.app is None.
save(self, st, t) ==
    LET definition == [name |-> self.name, task |-> self.task,
                       schedule |-> self.schedule, enabled |-> self.enabled]
        st1 == [st EXCEPT !.definition = Put(@, key(self.name), dumps(definition))]
    IN  IF ~self.app THEN Outcome(self, st1, "AttributeError")
        ELSE IF overflows(self, t) THEN Outcome(self, st1, "OverflowError")
        ELSE Outcome(self,
                     [st1 EXCEPT !.schedule = Put(@, key(self.name), score(self, t))],
                     None)

\* The writes of RedBeatSchedulerEntry.delete in their order: zrem of the
\* key from the sorted set, delete of the whole hash.  With the order turned
\* round first:
delete_hash_first == <<"delete", "zrem">>
delete_writes == <<"zrem", "delete">>
write(cmd, self, st) ==
    IF cmd = "zrem" THEN [st EXCEPT !.schedule = Drop(@, key(self.name))]
    ELSE [st EXCEPT !.definition = Drop(@, key(self.name)),
                    !.meta = Drop(@, key(self.name))]

\* RedBeatSchedulerEntry.delete.  self.app.conf, the argument of the zrem,
\* raises AttributeError when self.app is None, before anything is written.
delete(self, st) ==
    IF ~self.app THEN Outcome(self, st, "AttributeError")
    ELSE Outcome(self,
                 write(delete_writes[2], self, write(delete_writes[1], self, st)),
                 None)

\* RedBeatSchedulerEntry.next: the meta is written, then the zadd line names
\* the undefined global REDBEAT_SCHEDULE_KEY and raises NameError before the
\* sorted set is touched.
next(self, st, last_run_at, t) ==
    LET self1 == [self EXCEPT !.last_run_at = Or(last_run_at, t),
                              !.total_run_count = self.total_run_count + 1]
        meta == [last_run_at |-> self1.last_run_at,
                 total_run_count |-> self1.total_run_count]
    IN  Outcome(self1, [st EXCEPT !.meta = Put(@, key(self.name), dumps(meta))],
                "NameError")

\* RedBeatSchedulerEntry.reschedule: the meta holds last_run_at alone;
\* self.app.conf raises AttributeError as in save
reschedule(self, st, last_run_at, t) ==
    LET self1 == [self EXCEPT !.last_run_at = Or(last_run_at, t)]
        meta == [last_run_at |-> self1.last_run_at]
        st1 == [st EXCEPT !.meta = Put(@, key(self.name), dumps(meta))]
    IN  IF ~self1.app THEN Outcome(self1, st1, "AttributeError")
        ELSE IF overflows(self1, t) THEN Outcome(self1, st1, "OverflowError")
        ELSE Outcome(self1,
                     [st1 EXCEPT !.schedule = Put(@, key(self.name), score(self1, t))],
                     None)

\* is_due without the test of self.enabled
is_due_ignoring_enabled(self, t) ==
    LET rem == remaining_estimate(self.schedule, self.last_run_at, t)
    IN  IF rem <= 0 THEN <<TRUE, self.schedule>> ELSE <<FALSE, rem>>

\* RedBeatSchedulerEntry.is_due: <<is_due, next check delay>>.  An enabled
\* entry asks its schedule: due when the remaining time is not positive,
\* then the delay is the whole interval, else the remaining time.
is_due(self, t) ==
    IF ~self.enabled THEN <<FALSE, DisabledDelaySeconds * TicksPerSecond>>
    ELSE LET rem == remaining_estimate(self.schedule, self.last_run_at, t)
         IN  IF rem <= 0 THEN <<TRUE, self.schedule>> ELSE <<FALSE, rem>>

\* --------------------------------------------------- the beat processes
Ticking == {"tick", "select", "load", "process"}
Alive == Ticking \cup {"acquire", "sleep"}

\* do_acquire as a plain SET, without NX
do_acquire_overwrite(lk, p) == <<TRUE, [token |-> p, ttl |-> lock_timeout]>>

\* redis.lock(...).acquire() tries SET lock_key token NX PX timeout: a Lock
\* object's token is its own, so the process stands for it.  <<ok, lock>>
do_acquire(lk, p) ==
    IF lk.token = None THEN <<TRUE, [token |-> p, ttl |-> lock_timeout]>>
    ELSE <<FALSE, lk>>

\* acquire_distributed_beat_lock with lock.acquire(blocking=False) and its
\* result ignored
acquire_without_waiting(p) ==
    /\ pc[p] = "acquire"
    /\ timer[p] = 0
    /\ pc' = [pc EXCEPT ![p] = "tick"]
    /\ IF lock_key
       THEN /\ store' = [store EXCEPT !.lock =
                           IF @.token = None
                           THEN [token |-> p, ttl |-> lock_timeout] ELSE @]
            /\ lock' = [lock EXCEPT ![p] = TRUE]
       ELSE UNCHANGED <<store, lock>>
    /\ UNCHANGED <<now, lock_key, timer, since, slow, due_tasks, d, pending,
                   remaining, sent, clientVars>>

\* acquire_distributed_beat_lock: without a lock key it returns at once and
\* scheduler.lock stays None; with one it loops over do_acquire and
\* sleep(max_interval) and sets scheduler.lock once the SET succeeded.
acquire_distributed_beat_lock(p) ==
    /\ pc[p] = "acquire"
    /\ timer[p] = 0
    /\ IF ~lock_key
       THEN /\ pc' = [pc EXCEPT ![p] = "tick"]
            /\ UNCHANGED <<store, lock, timer, since>>
       ELSE LET got == do_acquire(store.lock, p)
            IN  IF got[1]
                THEN /\ store' = [store EXCEPT !.lock = got[2]]
                     /\ lock' = [lock EXCEPT ![p] = TRUE]
                     /\ since' = [since EXCEPT ![p] = 0]
                     /\ pc' = [pc EXCEPT ![p] = "tick"]
                     /\ UNCHANGED timer
                ELSE /\ timer' = [timer EXCEPT ![p] = max_interval]
                     /\ UNCHANGED <<store, lock, since, pc>>
    /\ UNCHANGED <<now, slow, lock_key, due_tasks, d, pending, remaining,
                   sent, clientVars>>

\* pexpire with the renewal left out
pexpire_forgotten(lk, ttl) == lk

\* redis pexpire(lock_key, ms): sets the time to live of the key if the key
\* exists, whoever's token it holds
pexpire(lk, ttl) == IF lk.token = None THEN lk ELSE [lk EXCEPT !.ttl = ttl]

\* tick that goes to Scheduler.tick without extending the lock first
tick_work_first(p) ==
    /\ pc[p] = "tick"
    /\ pc' = [pc EXCEPT ![p] = "select"]
    /\ remaining' = [remaining EXCEPT ![p] = max_interval]
    /\ UNCHANGED <<now, slow, store, lock_key, lock, timer, since, due_tasks, d,
                   pending, sent, clientVars>>

\* RedBeatScheduler.tick, its own lines: extend the lock when self.lock is
\* set, then enter Scheduler.tick
tick(p) ==
    /\ pc[p] = "tick"
    /\ IF lock[p]
       THEN /\ store' = [store EXCEPT !.lock = pexpire(@, lock_timeout)]
            /\ since' = [since EXCEPT ![p] = IF store.lock.token = p THEN 0 ELSE @]
       ELSE UNCHANGED <<store, since>>
    /\ pc' = [pc EXCEPT ![p] = "select"]
    /\ remaining' = [remaining EXCEPT ![p] = max_interval]
    /\ UNCHANGED <<now, slow, lock_key, lock, timer, due_tasks, d, pending,
                   sent, clientVars>>

\* The keys of zset with 0 <= score <= max, ascending by score
RECURSIVE ByScore(_, _)
ByScore(zset, ks) ==
    IF ks = {} THEN <<>>
    ELSE LET k == CHOOSE x \in ks : \A y \in ks : zset[x] <= zset[y]
         IN  <<k>> \o ByScore(zset, ks \ {k})
zrangebyscore(zset, max) ==
    ByScore(zset, {k \in DOMAIN zset : 0 <= zset[k] /\ zset[k] <= max})

\* RedBeatScheduler.schedule, the range query
select(p) ==
    /\ pc[p] = "select"
    /\ LET max_due_at == to_timestamp(now + max_interval)
       IN  due_tasks' = [due_tasks EXCEPT ![p] = zrangebyscore(store.schedule, max_due_at)]
    /\ d' = [d EXCEPT ![p] = Empty]
    /\ pc' = [pc EXCEPT ![p] = "load"]
    /\ UNCHANGED <<now, slow, store, lock_key, lock, timer, since, pending,
                   remaining, sent, clientVars>>

\* The loop over due_tasks without the except KeyError clause: the error
\* leaves the tick and ends the service loop
load_without_except(p) ==
    /\ pc[p] = "load"
    /\ IF due_tasks[p] = <<>>
       THEN /\ pc' = [pc EXCEPT ![p] = "process"]
            /\ pending' = [pending EXCEPT ![p] = DOMAIN d[p]]
            /\ UNCHANGED <<due_tasks, d>>
       ELSE LET k == Head(due_tasks[p])
                entry == from_key(store, k, now)
            IN  /\ due_tasks' = [due_tasks EXCEPT ![p] = Tail(@)]
                /\ IF Len(entry) # 1
                   THEN /\ pc' = [pc EXCEPT ![p] = "failed"]
                        /\ UNCHANGED d
                   ELSE /\ d' = [d EXCEPT ![p] = Put(@, entry[1].name, entry[1])]
                        /\ UNCHANGED pc
                /\ UNCHANGED pending
    /\ UNCHANGED <<now, slow, store, lock_key, lock, timer, since, remaining, sent,
                   clientVars>>

\* RedBeatScheduler.reserve: next(entry)
reserve(entry, st, t) == next(entry, st, Nil, t)

\* Scheduler.apply_async: reserve the entry, then send the task.  An
\* exception of reserve leaves apply_async before anything is sent.
apply_async(entry, st, t) ==
    LET r == reserve(entry, st, t)
    IN  [store |-> r.store, raised |-> r.raised,
         message |-> IF r.raised = None
                     THEN <<[name |-> r.self.name, task |-> r.self.task, at |-> t]>>
                     ELSE <<>>]

\* Scheduler.tick, one turn of the loop over the entries: maybe_due asks
\* is_due, calls apply_async for a due entry and logs any exception of it;
\* a true next_time_to_run joins remaining_times.
maybe_due(p) ==
    /\ pc[p] = "process"
    /\ \E name \in pending[p] :
         LET entry == d[p][name]
             due == is_due(entry, now)
             r == apply_async(entry, store, now)
         IN  /\ pending' = [pending EXCEPT ![p] = @ \ {name}]
             /\ IF due[1]
                THEN /\ store' = r.store
                     /\ sent' = sent \o r.message
                ELSE UNCHANGED <<store, sent>>
             /\ remaining' = [remaining EXCEPT ![p] =
                                IF due[2] # 0 THEN Min(@, due[2]) ELSE @]
    /\ UNCHANGED <<now, slow, lock_key, pc, lock, timer, since, due_tasks, d,
                   clientVars>>

\* Scheduler.tick returns min(remaining_times + [max_interval]); the beat
\* service sleeps that long before the next tick.
tick_return(p) ==
    /\ pc[p] = "process"
    /\ pending[p] = {}
    /\ pc' = [pc EXCEPT ![p] = "sleep"]
    /\ timer' = [timer EXCEPT ![p] = remaining[p]]
    /\ d' = [d EXCEPT ![p] = Empty]
    /\ remaining' = [remaining EXCEPT ![p] = max_interval]
    /\ UNCHANGED <<now, slow, store, lock_key, lock, since, due_tasks, pending,
                   sent, clientVars>>

\* The service loop: the sleep is over, the next tick starts
wake(p) ==
    /\ pc[p] = "sleep"
    /\ timer[p] = 0
    /\ pc' = [pc EXCEPT ![p] = "tick"]
    /\ UNCHANGED <<now, slow, store, lock_key, lock, timer, since, due_tasks,
                   d, pending, remaining, sent, clientVars>>

\* redis-py Lock.release: the key is deleted only while it holds the token of
\* this Lock object (otherwise LockError)
release(lk, p) == IF lk.token = p THEN NoLock ELSE lk

\* A process that has stopped has no memory
Stopped(p, how) ==
    /\ pc' = [pc EXCEPT ![p] = how]
    /\ lock' = [lock EXCEPT ![p] = FALSE]
    /\ timer' = [timer EXCEPT ![p] = 0]
    /\ since' = [since EXCEPT ![p] = 0]
    /\ slow' = [slow EXCEPT ![p] = FALSE]
    /\ due_tasks' = [due_tasks EXCEPT ![p] = <<>>]
    /\ d' = [d EXCEPT ![p] = Empty]
    /\ pending' = [pending EXCEPT ![p] = {}]
    /\ remaining' = [remaining EXCEPT ![p] = max_interval]

\* An exception leaves the tick and the service loop; the loop's finally
\* clause calls scheduler.close()
raise(p) ==
    /\ IF lock[p]
       THEN store' = [store EXCEPT !.lock = release(@, p)]
       ELSE UNCHANGED store
    /\ Stopped(p, "failed")

\* RedBeatScheduler.schedule, one turn of the loop over due_tasks: from_key,
\* and on KeyError the key is removed from the sorted set; any other
\* exception of from_key is not caught.  After the last key the dict is
\* returned to Scheduler.tick.
load(p) ==
    /\ pc[p] = "load"
    /\ IF due_tasks[p] = <<>>
       THEN /\ pc' = [pc EXCEPT ![p] = "process"]
            /\ pending' = [pending EXCEPT ![p] = DOMAIN d[p]]
            /\ UNCHANGED <<store, due_tasks, d, slow, lock, timer, since, remaining>>
       ELSE LET k == Head(due_tasks[p])
                entry == from_key(store, k, now)
            IN  IF entry = ValueError
                THEN raise(p)
                ELSE /\ due_tasks' = [due_tasks EXCEPT ![p] = Tail(@)]
                     /\ IF entry = Nil
                        THEN /\ store' = [store EXCEPT !.schedule = Drop(@, k)]
                             /\ UNCHANGED d
                        ELSE /\ d' = [d EXCEPT ![p] = Put(@, entry[1].name, entry[1])]
                             /\ UNCHANGED store
                     /\ UNCHANGED <<pc, pending, slow, lock, timer, since, remaining>>
    /\ UNCHANGED <<now, lock_key, sent, clientVars>>

\* RedBeatScheduler.close, at the end of the service loop
close(p) ==
    /\ pc[p] \in {"tick", "sleep"}
    /\ IF lock[p]
       THEN store' = [store EXCEPT !.lock = release(@, p)]
       ELSE UNCHANGED store
    /\ Stopped(p, "closed")
    /\ UNCHANGED <<now, lock_key, sent, clientVars>>

\* The process dies where it is; close() is not called
crash(p) ==
    /\ pc[p] \in Alive
    /\ Stopped(p, "crashed")
    /\ UNCHANGED <<now, store, lock_key, sent, clientVars>>

\* ------------------------------------------------------------------ time
\* dt units of time pass: the lock key's time to live runs down and the key
\* is gone at zero, the sleeps run down, and the clock of a process that
\* holds a Lock object runs up to lock_timeout, where its token has expired.
\* A finished sleep and the first line of a tick take no time; the work of a
\* tick takes any time.
CanPass(dt) ==
    \A p \in Procs : /\ pc[p] # "tick"
                     /\ pc[p] \in {"sleep", "acquire"} => timer[p] >= dt
Passed(dt) ==
    /\ store' = [store EXCEPT !.lock =
                    IF @.token = None THEN @
                    ELSE IF @.ttl <= dt THEN NoLock
                    ELSE [@ EXCEPT !.ttl = @ - dt]]
    /\ timer' = [p \in Procs |->
                    IF pc[p] \in {"sleep", "acquire"} THEN timer[p] - dt ELSE timer[p]]
    /\ since' = [p \in Procs |->
                    IF lock[p] THEN Min(since[p] + dt, lock_timeout) ELSE since[p]]
    /\ slow' = [p \in Procs |->
                    slow[p] \/ (lock[p] /\ pc[p] \in Ticking /\ since'[p] >= lock_timeout)]

\* One second passes; the wall clock is left alone (the lock specification)
elapse ==
    /\ CanPass(TicksPerSecond)
    /\ Passed(TicksPerSecond)
    /\ UNCHANGED <<now, lock_key, pc, lock, due_tasks, d, pending, remaining,
                   sent, clientVars>>

\* ------------------------------------------------- the lock specification
\* Three beat processes share one store.  The schedule holds one disabled
\* entry whose score lies in the window of every tick, so that what a tick
\* does is the same at every wall-clock time and the clock can stay put.
IdleEntry ==
    Entry("a", "t", 3, FALSE, <<ClockStart - 3>>, Nil, TRUE, ClockStart - 3)
ProcInit ==
    /\ pc = [p \in Procs |-> "acquire"]
    /\ lock = [p \in Procs |-> FALSE]
    /\ timer = [p \in Procs |-> 0]
    /\ since = [p \in Procs |-> 0]
    /\ slow = [p \in Procs |-> FALSE]
    /\ due_tasks = [p \in Procs |-> <<>>]
    /\ d = [p \in Procs |-> Empty]
    /\ pending = [p \in Procs |-> {}]
    /\ remaining = [p \in Procs |-> max_interval]
NoBoot ==
    [ran |-> FALSE, n |-> 0, conf |-> {}, raised |-> None,
     clean |-> FALSE, again |-> FALSE]
ClientInit ==
    /\ obj = Nil
    /\ loaded = Nil
    /\ called = [op |-> "init", raised |-> None, prev |-> "other"]
    /\ boot = NoBoot

LockInit ==
    /\ now = ClockStart
    /\ store = save(IdleEntry, EmptyStore, ClockStart - 3).store
    /\ lock_key \in BOOLEAN
    /\ sent = <<>>
    /\ ProcInit
    /\ ClientInit

ProcStep(p) ==
    \/ acquire_distributed_beat_lock(p)
    \/ tick(p)
    \/ select(p)
    \/ load(p)
    \/ maybe_due(p)
    \/ tick_return(p)
    \/ wake(p)
    \/ close(p)
    \/ crash(p)

LockNext == (\E p \in Procs : ProcStep(p)) \/ elapse

LockSpec == LockInit /\ [][LockNext]_vars

\* One unit of time passes on the wall clock (the tick specification)
advance ==
    /\ now < ClockStart + Horizon
    /\ now' = now + 1
    /\ CanPass(1)
    /\ Passed(1)
    /\ UNCHANGED <<lock_key, pc, lock, due_tasks, d, pending, remaining,
                   sent, clientVars>>

\* ------------------------------------------------ the entry specification
\* A client of RedBeatSchedulerEntry holds one entry object and calls its
\* methods, one after the other at one time of the wall clock; the entries
\* it builds have run now, in the past or never.  No beat process runs.
Call(op, raised) ==
    [op |-> op, raised |-> raised,
     prev |-> IF called.op = "save" /\ called.raised = None THEN "save" ELSE "other"]

\* last_run_at arguments a call is made with: none, now, or a past time
LastRunArgs == {Nil, <<now - 4>>}
RunCountArgs == {Nil} \cup {<<n>> : n \in 0..MaxRuns}

\* RedBeatSchedulerEntry(name, task, schedule, enabled=..., last_run_at=...,
\* total_run_count=...)
new_entry ==
    /\ \E name \in {"a"}, task \in Tasks, run_every \in RunEvery, enabled \in BOOLEAN,
          last_run_at \in LastRunArgs, total_run_count \in RunCountArgs,
          app \in BOOLEAN :
         obj' = <<Entry(name, task, run_every, enabled, last_run_at,
                        total_run_count, app, now)>>
    /\ called' = Call("init", None)
    /\ UNCHANGED <<now, store, lock_key, procVars, sent, loaded, boot>>

\* entry = RedBeatSchedulerEntry.from_key(key)
client_from_key ==
    /\ obj # Nil
    /\ LET entry == from_key(store, key(obj[1].name), now)
       IN  /\ loaded' = IF Len(entry) = 1 THEN entry ELSE Nil
           /\ called' = Call("from_key", IF entry = Nil THEN "KeyError"
                                          ELSE IF entry = ValueError THEN "ValueError"
                                          ELSE None)
    /\ UNCHANGED <<now, store, lock_key, procVars, sent, obj, boot>>

\* The client goes on with the entry from_key returned
use_loaded ==
    /\ loaded # Nil
    /\ obj # loaded
    /\ obj' = loaded
    /\ called' = Call("init", None)
    /\ UNCHANGED <<now, store, lock_key, procVars, sent, loaded, boot>>

\* What a call of a method of the entry object leaves behind
Returned(op, r) ==
    /\ store' = r.store
    /\ obj' = <<r.self>>
    /\ called' = Call(op, r.raised)
    /\ UNCHANGED <<now, lock_key, procVars, sent, loaded, boot>>

client_save == obj # Nil /\ Returned("save", save(obj[1], store, now))

client_delete == obj # Nil /\ Returned("delete", delete(obj[1], store))

client_next ==
    /\ obj # Nil
    /\ obj[1].total_run_count <= MaxRuns
    /\ \E last_run_at \in LastRunArgs :
         Returned("next", next(obj[1], store, last_run_at, now))

client_reschedule ==
    /\ obj # Nil
    /\ \E last_run_at \in LastRunArgs :
         Returned("reschedule", reschedule(obj[1], store, last_run_at, now))

NoProcs ==
    /\ pc = [p \in Procs |-> "closed"]
    /\ lock = [p \in Procs |-> FALSE]
    /\ timer = [p \in Procs |-> 0]
    /\ since = [p \in Procs |-> 0]
    /\ slow = [p \in Procs |-> FALSE]
    /\ due_tasks = [p \in Procs |-> <<>>]
    /\ d = [p \in Procs |-> Empty]
    /\ pending = [p \in Procs |-> {}]
    /\ remaining = [p \in Procs |-> max_interval]

EntryInit ==
    /\ now = ClockStart
    /\ store = EmptyStore
    /\ lock_key = FALSE
    /\ sent = <<>>
    /\ NoProcs
    /\ ClientInit

EntryNext ==
    \/ new_entry
    \/ client_from_key
    \/ use_loaded
    \/ client_save
    \/ client_delete
    \/ client_next
    \/ client_reschedule

EntrySpec == EntryInit /\ [][EntryNext]_vars

\* ----------------------------------------------- the delete specification
\* The client of the entry specification, with delete() taken one write at
\* a time: the client may die between the zrem and the delete of the hash,
\* and nothing else runs while a delete() is under way.
delete_begin ==
    /\ obj # Nil
    /\ called.op # "deleting"
    /\ IF ~obj[1].app
       THEN Returned("delete", delete(obj[1], store))
       ELSE /\ store' = write(delete_writes[1], obj[1], store)
            /\ called' = Call("deleting", None)
            /\ UNCHANGED <<now, lock_key, procVars, sent, obj, loaded, boot>>

delete_finish ==
    /\ called.op = "deleting"
    /\ store' = write(delete_writes[2], obj[1], store)
    /\ called' = Call("delete", None)
    /\ UNCHANGED <<now, lock_key, procVars, sent, obj, loaded, boot>>

\* The client dies after the first write of delete()
delete_interrupted ==
    /\ called.op = "deleting"
    /\ called' = [op |-> "interrupted", raised |-> None, prev |-> called.prev]
    /\ UNCHANGED <<now, store, lock_key, procVars, sent, obj, loaded, boot>>

DeleteNext ==
    \/ called.op # "deleting" /\ new_entry
    \/ called.op # "deleting" /\ client_from_key
    \/ called.op # "deleting" /\ use_loaded
    \/ called.op # "deleting" /\ client_save
    \/ called.op # "deleting" /\ client_next
    \/ called.op # "deleting" /\ client_reschedule
    \/ delete_begin
    \/ delete_finish
    \/ delete_interrupted

DeleteSpec == EntryInit /\ [][DeleteNext]_vars

\* ---------------------------------------------- the startup specification
\* Beat processes start one after the other, each with its own static
\* configuration; between the startups clients create entries and entries
\* run, and the clock goes on.
ConfNames == Names \cup {"c"}

\* An item of CELERYBEAT_SCHEDULE made an entry by Scheduler._maybe_entry:
\* self.Entry(**dict(entry, name=name, app=self.app))
StaticEntry(name, t) == Entry(name, "t", 3, TRUE, Nil, Nil, TRUE, t)

\* RedBeatSchedulerEntry(name), as setup_schedule builds it for a removed
\* name: no schedule and no app
BareEntry(name) == [name |-> name, app |-> FALSE]

\* setup_schedule, "cleanup old static entries": the loop over removed stops
\* at the first exception
RECURSIVE cleanup(_, _)
cleanup(removed, st) ==
    IF removed = {} THEN [store |-> st, raised |-> None]
    ELSE LET name == CHOOSE n \in removed : TRUE
             r == delete(BareEntry(name), st)
         IN  IF r.raised # None THEN [store |-> r.store, raised |-> r.raised]
             ELSE cleanup(removed \ {name}, r.store)

\* RedBeatScheduler.update_from_dict: every item is made an entry and saved
RECURSIVE update_from_dict(_, _, _)
update_from_dict(dict_, st, t) ==
    IF dict_ = {} THEN st
    ELSE LET name == CHOOSE n \in dict_ : TRUE
         IN  update_from_dict(dict_ \ {name},
                              save(StaticEntry(name, t), st, t).store, t)

\* RedBeatScheduler.setup_schedule with CELERYBEAT_SCHEDULE = conf (the
\* names; every item is task t every 3 units).  celery's
\* install_default_entries adds nothing here: the result backend needs no
\* cleanup task.
setup_schedule(conf, st, t) ==
    LET previous == st.statics
        current == conf
        removed == previous \ current
        cleaned == cleanup(removed, st)
    IN  IF cleaned.raised # None THEN cleaned
        ELSE IF conf = {} THEN cleaned
        ELSE [store |-> [update_from_dict(conf, cleaned.store, t) EXCEPT
                           !.statics = @ \cup conf],
              raised |-> None]

\* A beat process starts: RedBeatScheduler.__init__ runs setup_schedule
startup ==
    /\ boot.n < MaxStartups
    /\ \E conf \in SUBSET ConfNames :
         LET r == setup_schedule(conf, store, now)
         IN  /\ store' = r.store
             /\ boot' = [ran |-> TRUE, n |-> boot.n + 1, conf |-> conf,
                         raised |-> r.raised, clean |-> TRUE,
                         again |-> boot.ran /\ boot.conf = conf /\ boot.clean]
    /\ UNCHANGED <<now, lock_key, procVars, sent, obj, loaded, called>>

\* A client creates an entry at runtime, a disabled one, and saves it
dynamic_save ==
    /\ \E name \in Names :
         store' = save(Entry(name, "t", 3, FALSE, Nil, Nil, TRUE, now),
                       store, now).store
    /\ boot' = [boot EXCEPT !.clean = FALSE]
    /\ UNCHANGED <<now, lock_key, procVars, sent, obj, loaded, called>>

\* A stored entry runs: the tick of some beat process loads it and calls
\* next() on it
stored_entry_runs ==
    /\ \E name \in Names :
         /\ key(name) \in DOMAIN store.definition
         /\ LET entry == from_key(store, key(name), now)[1]
            IN  /\ entry.total_run_count < MaxRuns
                /\ store' = next(entry, store, Nil, now).store
    /\ boot' = [boot EXCEPT !.clean = FALSE]
    /\ UNCHANGED <<now, lock_key, procVars, sent, obj, loaded, called>>

SetupInit == EntryInit

SetupNext ==
    \/ startup
    \/ dynamic_save
    \/ stored_entry_runs
    \/ advance

SetupSpec == SetupInit /\ [][SetupNext]_vars

\* ------------------------------------------------- the tick specification
\* One beat process, no lock key, and a store that clients of the entry
\* class have filled before: each name was never stored, or was saved at T0,
\* or was saved at T0 and rescheduled at T0 (it has a meta), or was only
\* rescheduled at T0 (a meta and a score, no definition), or was saved at T0
\* and then its definition or its meta was overwritten with a text that is
\* no JSON.
Histories == {"none", "saved", "ran", "dangling", "bad definition", "bad meta"}
StartTimes == {ClockStart - 3, ClockStart}
Seeded(st, name, history, enabled, T0) ==
    LET entry == Entry(name, "t", 3, enabled, <<T0>>, Nil, TRUE, T0)
    IN  CASE history = "none" -> st
          [] history = "saved" -> save(entry, st, T0).store
          [] history = "ran" ->
               reschedule(entry, save(entry, st, T0).store, <<T0>>, T0).store
          [] history = "dangling" -> reschedule(entry, st, <<T0>>, T0).store
          [] history = "bad definition" ->
               [save(entry, st, T0).store EXCEPT
                  !.definition = Put(@, key(name), Malformed)]
          [] history = "bad meta" ->
               [save(entry, st, T0).store EXCEPT
                  !.meta = Put(@, key(name), Malformed)]

Scheduler == "p1"

TickInit ==
    /\ now = ClockStart
    /\ \E ha, hb \in Histories, ea, eb \in BOOLEAN, Ta, Tb \in StartTimes :
         store = Seeded(Seeded(EmptyStore, "a", ha, ea, Ta), "b", hb, eb, Tb)
    /\ lock_key = FALSE
    /\ sent = <<>>
    /\ pc = [p \in Procs |-> IF p = Scheduler THEN "acquire" ELSE "closed"]
    /\ lock = [p \in Procs |-> FALSE]
    /\ timer = [p \in Procs |-> 0]
    /\ since = [p \in Procs |-> 0]
    /\ slow = [p \in Procs |-> FALSE]
    /\ due_tasks = [p \in Procs |-> <<>>]
    /\ d = [p \in Procs |-> Empty]
    /\ pending = [p \in Procs |-> {}]
    /\ remaining = [p \in Procs |-> max_interval]
    /\ ClientInit

TickNext == ProcStep(Scheduler) \/ advance

TickSpec == TickInit /\ [][TickNext]_vars

\* The tick specification with one outside caller that builds an entry
\* object for a name (with the app) and calls its delete(), at any point
\* of the scheduler's work.
external_delete ==
    /\ obj = Nil
    /\ \E name \in Names :
         Returned("delete", delete(Entry(name, "t", 3, TRUE, Nil, Nil, TRUE, now), store))

RaceNext == TickNext \/ external_delete

RaceSpec == TickInit /\ [][RaceNext]_vars

\* The code reads the wall clock only through differences of times and
\* through to_timestamp, so a run looks the same with every time counted
\* from one second later.  At the end of the tracked range the times are
\* renumbered that way (no time passes), which lets the clock go on without
\* end.  A last_run_at from LongAgo or before is due at every tracked time,
\* and a score of LongAgoScore or less is in the window of every range query
\* (the query's lower end 0 only moves further down): they are kept there.
\* datetime.min stays what it is.  The code only ever adds one to a run
\* count, so a count above MaxRuns is kept as MaxRuns.
LongAgo == ClockStart - 3
LongAgoScore == to_timestamp(ClockStart)
Earlier(dt) ==
    IF dt = DatetimeMin THEN dt
    ELSE IF dt - TicksPerSecond < LongAgo THEN Min(dt, LongAgo)
    ELSE dt - TicksPerSecond
EarlierScore(sc) ==
    IF sc - 1 < LongAgoScore THEN Min(sc, LongAgoScore) ELSE sc - 1
EarlierMeta(text) ==
    LET meta == loads(text)
    IN  IF ~decodable(text) THEN text
        ELSE IF "total_run_count" \in DOMAIN meta
        THEN dumps([last_run_at |-> Earlier(meta.last_run_at),
                    total_run_count |-> Min(meta.total_run_count, MaxRuns)])
        ELSE dumps([last_run_at |-> Earlier(meta.last_run_at)])
renumber ==
    /\ now = ClockStart + Horizon
    /\ now' = now - TicksPerSecond
    /\ store' = [store EXCEPT
                   !.meta = [k \in DOMAIN @ |-> EarlierMeta(@[k])],
                   !.schedule = [k \in DOMAIN @ |-> EarlierScore(@[k])]]
    /\ d' = [p \in Procs |->
               [name \in DOMAIN d[p] |->
                  [d[p][name] EXCEPT !.last_run_at = Earlier(@),
                                     !.total_run_count = Min(@, MaxRuns)]]]
    /\ sent' = [i \in DOMAIN sent |-> [sent[i] EXCEPT !.at = Earlier(@)]]
    /\ UNCHANGED <<lock_key, pc, lock, timer, since, slow, due_tasks, pending,
                   remaining, clientVars>>

FairTickNext == TickNext \/ renumber

\* The lock specification with the scheduling the processes have: time
\* passes, and a process that is alive takes its next step.
Run(p) ==
    \/ acquire_distributed_beat_lock(p)
    \/ tick(p)
    \/ select(p)
    \/ load(p)
    \/ maybe_due(p)
    \/ tick_return(p)
    \/ wake(p)

FairLockSpec ==
    /\ LockInit
    /\ [][LockNext]_vars
    /\ WF_vars(elapse)
    /\ \A p \in Procs : WF_vars(Run(p))

\* The tick specification with the same scheduling and an endless clock
FairTickSpec ==
    /\ TickInit
    /\ [][FairTickNext]_vars
    /\ WF_vars(advance)
    /\ WF_vars(renumber)
    /\ WF_vars(Run(Scheduler))

\* ------------------------------------------------------ claims on the lock
Holds(p) == store.lock.token = p
TickingProcs == {p \in Procs : pc[p] \in Ticking}
\* Ticking, and less than lock_timeout ago it acquired or renewed its token
OnTime == {p \in TickingProcs : lock[p] /\ since[p] < lock_timeout}

\* C1 as stated: with a lock key configured, in every reachable state at
\* most one process is executing a tick, and a process that is ticking
\* holds the token under the lock key.
C1_MutualExclusion ==
    lock_key => /\ Cardinality(TickingProcs) <= 1
                /\ \A p \in TickingProcs : Holds(p)

\* C1 amended: with a lock key configured, a process that is executing a
\* tick and that acquired or last renewed its token less than lock_timeout
\* ago holds the token, and there is at most one such process: as long as
\* no ticking process has let lock_timeout pass since its last renewal, at
\* most one process is ticking.
C1_MutualExclusionOnTime ==
    lock_key => /\ \A p \in OnTime : Holds(p)
                /\ Cardinality(OnTime) <= 1
                /\ TickingProcs = OnTime => Cardinality(TickingProcs) <= 1

\* C1 witness: one process is in the work of a tick, on time and holding
\* the token, while another was refused the lock and waits to poll again.
C1_Witness ==
    /\ lock_key
    /\ \E p, q \in Procs :
         /\ pc[p] = "process" /\ p \in OnTime /\ Holds(p) /\ since[p] > 0
         /\ pc[q] = "acquire" /\ timer[q] > 0

\* C2: with a lock key configured, a process leaves the wait of
\* acquire_distributed_beat_lock for its first tick only in a step in which
\* the lock key was free and now holds its token, a refused process stays
\* in the wait, and whoever ticks or sleeps between ticks has a Lock object.
C2_TickOnlyAfterAcquire ==
    /\ [](lock_key => \A p \in Procs : pc[p] \in Ticking \cup {"sleep"} => lock[p])
    /\ [][lock_key =>
            \A p \in Procs :
              /\ (pc[p] = "acquire" /\ pc'[p] \in Ticking)
                   => (store.lock.token = None /\ store'.lock.token = p /\ lock'[p])
              /\ (pc[p] = "acquire" /\ store.lock.token # None)
                   => pc'[p] \in {"acquire", "crashed"}]_vars

\* C2 witness: a process sleeps between two ticks with the token its
\* acquire set, and another process is still waiting after a refused poll.
C2_Witness ==
    /\ lock_key
    /\ \E p, q \in Procs :
         /\ pc[p] = "sleep" /\ lock[p] /\ Holds(p)
         /\ pc[q] = "acquire" /\ timer[q] > 0 /\ ~lock[q]

\* C3 as stated: once the holder of the lock has crashed without close()
\* and another process waits in the acquire loop, a waiting process
\* eventually holds the lock and ticks (or no process is waiting any more).
CrashedHolder(p) ==
    /\ lock_key
    /\ pc[p] = "crashed"
    /\ Holds(p)
    /\ \E q \in Procs : pc[q] = "acquire"
C3_CrashRecovery ==
    \A p \in Procs :
      CrashedHolder(p) ~>
        \/ \E q \in Procs : pc[q] \in Ticking /\ lock[q] /\ Holds(q)
        \/ \A q \in Procs : pc[q] # "acquire"

\* C4 as stated: a process that holds a Lock object and whose ticks each
\* took less than lock_timeout still has its token under the lock key, from
\* the acquire on and through the sleeps between its ticks.
C4_NoLapseWhenTicksShort ==
    \A p \in Procs : (lock[p] /\ ~slow[p]) => Holds(p)

\* C4 amended: for a process that holds a Lock object, as long as less than
\* lock_timeout passes from one renewal to the next (each tick together
\* with the sleep after it takes less than lock_timeout), its token is
\* under the lock key with at least lock_timeout less the time since the
\* renewal left to live: every tick sets the expiry to the full timeout.
C4_RenewedEachTick ==
    \A p \in Procs :
      (lock[p] /\ since[p] < lock_timeout)
        => /\ Holds(p)
           /\ store.lock.ttl >= lock_timeout - since[p]
           /\ store.lock.ttl <= lock_timeout

\* C4 witness: a lock holder has finished a tick and the sleep after it,
\* time has passed since its renewal, and its token is still there.
C4_Witness ==
    \E p \in Procs :
      /\ lock[p] /\ pc[p] = "sleep" /\ timer[p] = 0
      /\ since[p] > 0 /\ since[p] < lock_timeout
      /\ Holds(p) /\ store.lock.ttl = lock_timeout - since[p]

\* ---------------------------------------------------- claims on the entry
\* C5 as stated: after save() or reschedule() has returned, and after next()
\* has changed last_run_at, the score of the entry's key in the sorted set is
\* to_timestamp(due_at) of the entry object as the call left it.
C5_ScoreConsistency ==
    (\/ called.op = "next"
     \/ called.op \in {"save", "reschedule"} /\ called.raised = None)
      => /\ key(obj[1].name) \in DOMAIN store.schedule
         /\ store.schedule[key(obj[1].name)] = to_timestamp(due_at(obj[1], now))

\* C6 as stated: from_key(entry.key) right after entry.save() has returned
\* yields an entry equal to the saved one in name, task, schedule, enabled,
\* last_run_at and total_run_count.
C6_RoundTrip ==
    (called.op = "from_key" /\ called.prev = "save" /\ called.raised = None)
      => /\ loaded[1].name = obj[1].name
         /\ loaded[1].task = obj[1].task
         /\ loaded[1].schedule = obj[1].schedule
         /\ loaded[1].enabled = obj[1].enabled
         /\ loaded[1].last_run_at = obj[1].last_run_at
         /\ loaded[1].total_run_count = obj[1].total_run_count

\* ----------------------------------------------------- claims on the tick
\* The maybe_due step of the scheduler on the entry called name
Visits(name) ==
    /\ pc[Scheduler] = "process"
    /\ name \in pending[Scheduler]
    /\ name \notin pending'[Scheduler]
    /\ pc'[Scheduler] = "process"

\* C7 as stated: when the tick visits an enabled entry that has run before
\* (it has a meta), is in the sorted set, and whose interval has passed since its last_run_at, it is reported
\* due, one message with its name and task goes to the executor, and after
\* the step the stored meta has last_run_at = now and a run count one
\* higher, and the score of its key is to_timestamp(now + interval).
C7_FireDueEntry ==
    [][\A name \in Names :
         LET entry == d[Scheduler][name]
             k == key(name)
         IN  (/\ Visits(name)
              /\ entry.enabled
              /\ k \in DOMAIN store.meta
              /\ k \in DOMAIN store.schedule
              /\ now >= entry.last_run_at + entry.schedule)
               => /\ is_due(entry, now)[1]
                  /\ sent' = Append(sent, [name |-> name, task |-> entry.task, at |-> now])
                  /\ k \in DOMAIN store'.meta
                  /\ loads(store'.meta[k]) =
                       [last_run_at |-> now,
                        total_run_count |-> entry.total_run_count + 1]
                  /\ k \in DOMAIN store'.schedule
                  /\ store'.schedule[k] = to_timestamp(now + entry.schedule)]_vars

\* The entry called name is stored, enabled, in the window of the range
\* query, and its interval has passed since the last_run_at of its meta.
Overdue(name) ==
    LET k == key(name)
    IN  /\ k \in DOMAIN store.definition
        /\ decodable(store.definition[k])
        /\ k \in DOMAIN store.meta => decodable(store.meta[k])
        /\ loads(store.definition[k]).enabled
        /\ k \in DOMAIN store.schedule
        /\ 0 <= store.schedule[k]
        /\ store.schedule[k] <= to_timestamp(now + max_interval)
        /\ remaining_estimate(loads(store.definition[k]).schedule,
                              load_meta(store, k).last_run_at, now) <= 0

\* C8 as stated: an entry that is overdue while the scheduler is alive is
\* eventually sent to the executor (or the scheduler has stopped).
C8_AtLeastOnce ==
    \A name \in Names :
      (Overdue(name) /\ pc[Scheduler] \in Alive)
        ~> \/ \E i \in DOMAIN sent : sent[i].name = name
           \/ pc[Scheduler] \notin Alive

\* The entry stored under the key is disabled
StoredDisabled(k) ==
    /\ k \in DOMAIN store.definition
    /\ decodable(store.definition[k])
    /\ ~loads(store.definition[k]).enabled

\* C9: is_due of a disabled entry a tick has loaded is (False, 5 seconds)
\* whatever its last_run_at and schedule are, and no step changes the meta
\* or the score of a key whose stored entry is disabled or sends a message
\* for it.
C9_DisabledNeverFires ==
    /\ [](\A p \in Procs : \A name \in DOMAIN d[p] :
            ~d[p][name].enabled =>
               is_due(d[p][name], now) = <<FALSE, DisabledDelaySeconds * TicksPerSecond>>)
    /\ [][\A name \in Names :
            StoredDisabled(key(name)) =>
              /\ (key(name) \in DOMAIN store.meta) = (key(name) \in DOMAIN store'.meta)
              /\ key(name) \in DOMAIN store.meta
                   => store'.meta[key(name)] = store.meta[key(name)]
              /\ (key(name) \in DOMAIN store.schedule) = (key(name) \in DOMAIN store'.schedule)
              /\ key(name) \in DOMAIN store.schedule
                   => store'.schedule[key(name)] = store.schedule[key(name)]
              /\ \A i \in DOMAIN sent' : i > Len(sent) => sent'[i].name # name]_vars

\* C9 witness: the tick has visited a disabled entry whose interval has
\* passed since its last run, and the entry's meta and score are as stored.
C9_Witness ==
    /\ pc[Scheduler] = "process"
    /\ \E name \in DOMAIN d[Scheduler] \ pending[Scheduler] :
         /\ ~d[Scheduler][name].enabled
         /\ StoredDisabled(key(name))
         /\ remaining_estimate(d[Scheduler][name].schedule,
                               d[Scheduler][name].last_run_at, now) <= 0
         /\ key(name) \in DOMAIN store.schedule

\* C10: when the loop of schedule (of a process that does not die there)
\* comes to a key of the range query whose
\* definition is absent, that step removes exactly this key from the sorted
\* set, changes nothing else in the store, and the loop goes on with the
\* keys that are left: no error leaves the tick, and the entries loaded so
\* far stay loaded.
C10_DanglingIndexHealed ==
    [][\A p \in Procs :
         (/\ pc[p] = "load"
          /\ due_tasks[p] # <<>>
          /\ due_tasks'[p] # due_tasks[p]
          /\ pc'[p] # "crashed"
          /\ Head(due_tasks[p]) \notin DOMAIN store.definition)
           => /\ store'.schedule = Drop(store.schedule, Head(due_tasks[p]))
              /\ store'.definition = store.definition
              /\ store'.meta = store.meta
              /\ pc'[p] = "load"
              /\ due_tasks'[p] = Tail(due_tasks[p])
              /\ d'[p] = d[p]]_vars

\* C10 witness: the loop has dropped a key that had no definition (its meta
\* is still there, its score is gone) and has loaded another entry in the
\* same tick.
C10_Witness ==
    /\ pc[Scheduler] = "process"
    /\ \E k \in Keys :
         /\ k \in DOMAIN store.meta
         /\ k \notin DOMAIN store.definition
         /\ k \notin DOMAIN store.schedule
    /\ DOMAIN d[Scheduler] # {}

\* The key the loop of schedule is about to load holds a definition or a
\* meta that cannot be decoded
Undecodable(k) ==
    \/ k \in DOMAIN store.definition /\ ~decodable(store.definition[k])
    \/ /\ k \in DOMAIN store.definition
       /\ k \in DOMAIN store.meta
       /\ ~decodable(store.meta[k])

\* C11 as stated: when the loop of schedule comes to a key whose stored
\* definition or meta cannot be decoded, the tick goes on with the keys that
\* are left (no error leaves the tick), the entry is not loaded in this
\* tick, and its stored record and its index member stay as they are.
C11_MalformedEntrySkipped ==
    [][\A p \in Procs :
         (/\ pc[p] = "load"
          /\ due_tasks[p] # <<>>
          /\ pc'[p] # "crashed"
          /\ (pc'[p] # pc[p] \/ due_tasks'[p] # due_tasks[p])
          /\ Undecodable(Head(due_tasks[p])))
           => /\ pc'[p] = "load"
              /\ due_tasks'[p] = Tail(due_tasks[p])
              /\ d'[p] = d[p]
              /\ store' = store]_vars

\* --------------------------------------------------- claims on the startup
\* The step is a startup: setup_schedule has run
SetupStep == boot'.n = boot.n + 1

\* C12 as stated: a startup with configuration {B, C} that finds {A, B} in
\* the set of static names and A and B stored leaves nothing of A (no
\* definition, no meta, no index member), leaves B's meta as it was, and
\* leaves C with a definition and an index member.
C12_StaleStaticRemoval ==
    [][\A A, B, C \in ConfNames :
         (/\ A # B /\ B # C /\ A # C
          /\ SetupStep
          /\ store.statics = {A, B}
          /\ boot'.conf = {B, C}
          /\ key(A) \in DOMAIN store.definition
          /\ key(B) \in DOMAIN store.definition)
           => /\ key(A) \notin DOMAIN store'.definition
              /\ key(A) \notin DOMAIN store'.meta
              /\ key(A) \notin DOMAIN store'.schedule
              /\ (key(B) \in DOMAIN store.meta) = (key(B) \in DOMAIN store'.meta)
              /\ key(B) \in DOMAIN store.meta
                   => store'.meta[key(B)] = store.meta[key(B)]
              /\ key(C) \in DOMAIN store'.definition
              /\ key(C) \in DOMAIN store'.schedule]_vars

\* C13 as stated: a startup removes a stored entry only if its name was in
\* the configuration of the startup before and is not in this one, and the
\* set of static names after the startup is the configuration's names.
C13_OnlyStaleStaticsDeleted ==
    [][SetupStep =>
         /\ \A name \in ConfNames :
              (/\ key(name) \in DOMAIN store.definition
               /\ key(name) \notin DOMAIN store'.definition)
                => (boot.ran /\ name \in boot.conf /\ name \notin boot'.conf)
         /\ store'.statics = boot'.conf]_vars

\* C14: a startup with the configuration of the startup before it, on the
\* store as that startup left it, changes neither the stored definitions
\* (which entries are stored, and what each definition is) nor the set of
\* static names.
C14_IdempotentReconciliation ==
    [][(SetupStep /\ boot'.again)
         => /\ store'.definition = store.definition
            /\ store'.statics = store.statics]_vars

\* C14 witness: a startup with a configuration that is not empty has
\* returned, and, later on the clock, a second startup with the same
\* configuration has returned and saved the entries again.
C14_Witness ==
    /\ boot.again
    /\ boot.clean
    /\ boot.raised = None
    /\ boot.conf # {}
    /\ store.statics = boot.conf
    /\ now > ClockStart
    /\ \E name \in boot.conf :
         store.schedule[key(name)] = to_timestamp(now + 3)

\* C19 as stated: when a startup that returns re-installs an entry whose
\* definition it leaves unchanged and which has a meta, the score of the
\* entry's key afterwards is the score of the entry as from_key loads it:
\* to_timestamp of the due time given by the last_run_at of the meta.
C19_RestartKeepsDueTime ==
    [][(SetupStep /\ boot'.raised = None) =>
         \A name \in boot'.conf :
           (/\ key(name) \in DOMAIN store.meta
            /\ key(name) \in DOMAIN store.definition
            /\ store'.definition[key(name)] = store.definition[key(name)])
             => store'.schedule[key(name)] =
                  score(from_key(store', key(name), now)[1], now)]_vars

\* ------------------------------------------------- more claims on the entry
\* The total_run_count of the entry from_key builds from the store
StoredRunCount(st, k) ==
    LET meta == load_meta(st, k)
    IN  IF "total_run_count" \in DOMAIN meta THEN meta.total_run_count ELSE 0

\* C15 as stated: a call of save, next, reschedule or from_key on an entry
\* object that has its app, is stored, and whose total_run_count is the stored one never
\* lowers the total_run_count a reload gives; next raises it by one and
\* reschedule leaves it as it is.
C15_RunCountMonotonic ==
    [][LET k == key(obj[1].name)
       IN  (/\ obj # Nil
            /\ called'.op \in {"save", "next", "reschedule", "from_key"}
            /\ k \in DOMAIN store.definition
            /\ k \in DOMAIN store'.definition
            /\ obj[1].app
            /\ obj[1].total_run_count = StoredRunCount(store, k))
             => /\ StoredRunCount(store', k) >= StoredRunCount(store, k)
                /\ called'.op = "next"
                     => StoredRunCount(store', k) = StoredRunCount(store, k) + 1
                /\ called'.op = "reschedule"
                     => StoredRunCount(store', k) = StoredRunCount(store, k)]_vars

\* ------------------------------------------------- more claims on the lock
\* The first line of a tick of p, and the close() of p
TickStep(p) == pc[p] = "tick" /\ pc'[p] = "select"
CloseStep(p) == pc[p] \in {"tick", "sleep"} /\ pc'[p] = "closed"

\* C16: the step that begins a tick of a process with a Lock object sets
\* the time to live of the lock key, if the key exists, to lock_timeout and
\* leaves its token; the range query comes only after that step, the loads
\* only after the range query, and the visits of the entries only after the
\* loads; the step that begins a tick of a process without a Lock object
\* leaves the lock key alone.
C16_RenewBeforeWork ==
    [][\A p \in Procs :
         /\ (TickStep(p) /\ lock[p] /\ store.lock.token # None)
              => /\ store'.lock.ttl = lock_timeout
                 /\ store'.lock.token = store.lock.token
         /\ (TickStep(p) /\ ~lock[p]) => store'.lock = store.lock
         /\ (pc'[p] = "select" /\ pc[p] # "select") => pc[p] = "tick"
         /\ (pc'[p] = "load" /\ pc[p] # "load") => pc[p] = "select"
         /\ (pc'[p] = "process" /\ pc[p] # "process") => pc[p] = "load"]_vars

\* C16 witness: a process that holds the token is at the range query of a
\* tick with the key's time to live at lock_timeout, while a process that
\* was refused the lock sleeps before its next attempt.
C16_Witness ==
    /\ lock_key
    /\ \E p, q \in Procs :
         /\ pc[p] = "select" /\ lock[p] /\ Holds(p)
         /\ store.lock.ttl = lock_timeout /\ since[p] = 0
         /\ pc[q] = "acquire" /\ ~lock[q] /\ timer[q] > 0

\* C20 as stated: the first line of a tick of P and the close() of P leave
\* the lock key as it is, time to live and all, unless the token under the
\* key is P's.
C20_OwnTokenOnly ==
    [][\A p \in Procs :
         ((TickStep(p) \/ CloseStep(p)) /\ store.lock.token # p)
           => store'.lock = store.lock]_vars

\* ---------------------------------------------------- claims on delete
\* C17: between the two writes of a delete() that runs alone, and for as
\* long as the store stays as a client that died there left it, the key of
\* the entry is no member of the sorted set (so it is no member without a
\* definition) and the range query of a tick does not return it.
C17_CrashSafeDelete ==
    called.op \in {"deleting", "interrupted"}
      => LET k == key(obj[1].name)
             due == zrangebyscore(store.schedule, to_timestamp(now + max_interval))
         IN  /\ k \notin DOMAIN store.schedule
             /\ \A i \in 1..Len(due) : due[i] # k

\* C17 witness: delete() of an entry that save() had just stored and put
\* into the sorted set has made its first write: the definition is there,
\* the member of the sorted set is gone.
C17_Witness ==
    /\ called.op = "deleting"
    /\ called.prev = "save"
    /\ key(obj[1].name) \in DOMAIN store.definition
    /\ key(obj[1].name) \notin DOMAIN store.schedule

\* C18 as stated: once delete() of an entry has returned, at the end of
\* every tick of the scheduler that does not hold the entry among the
\* entries it loaded (a tick after the one the delete ran into), the store
\* has no definition, no meta and no member of the sorted set for it.
\* Nothing saves the entry again in this specification.
C18_DeleteIsFinal ==
    [][(/\ obj # Nil
        /\ called.op = "delete" /\ called.raised = None
        /\ pc[Scheduler] = "process" /\ pc'[Scheduler] = "sleep"
        /\ obj[1].name \notin DOMAIN d[Scheduler])
         => LET k == key(obj[1].name)
            IN  /\ k \notin DOMAIN store'.definition
                /\ k \notin DOMAIN store'.meta
                /\ k \notin DOMAIN store'.schedule]_vars

====
